---------------------------- MODULE Spec2Model ----------------------------
(***************************************************************************)
(* Twilight-Generator: the Timeline / Keyframe engine of                   *)
(* src/twilight_animator.py and the TwilightState value object of          *)
(* src/twilight_generator.py, as a state machine.                          *)
(*                                                                         *)
(* Python objects have identity: a TwilightState object is a cell of       *)
(* `heap` addressed by a reference, and a Keyframe object holds such a     *)
(* reference, so "a copy" and "the same object" are different things.      *)
(* Real numbers are exact rationals <<numerator, denominator>>.            *)
(***************************************************************************)
EXTENDS Integers, Sequences, FiniteSets, TLC

(***************************************************************************)
(* Bounds of the model.                                                    *)
(***************************************************************************)
MaxFrame == 3
MaxKeyframes == 3
MaxInitLen == 2
MaxSetterCalls == 2

(***************************************************************************)
(* Python's None, and a value that is present where None is allowed.       *)
(***************************************************************************)
None == <<>>
Some(v) == <<v>>

(***************************************************************************)
(* Exact rational arithmetic.                                              *)
(***************************************************************************)
Abs(x) == IF x < 0 THEN -x ELSE x

RECURSIVE GCD(_, _)
GCD(a, b) == IF b = 0 THEN a ELSE GCD(b, a % b)

Rat(n, d) ==
    LET s == IF d < 0 THEN -1 ELSE 1
        g == GCD(Abs(n), Abs(d))
    IN  <<(s * n) \div g, (s * d) \div g>>

\* F applied to the value of v, which is computed once
Let(v, F(_)) == CHOOSE r \in {F(x) : x \in {v}} : TRUE

R(n) == <<n, 1>>
RAdd(x, y) == Let(<<x, y>>, LAMBDA p : Rat(p[1][1] * p[2][2] + p[2][1] * p[1][2], p[1][2] * p[2][2]))
RSub(x, y) == Let(<<x, y>>, LAMBDA p : Rat(p[1][1] * p[2][2] - p[2][1] * p[1][2], p[1][2] * p[2][2]))
RMul(x, y) == Let(<<x, y>>, LAMBDA p : Rat(p[1][1] * p[2][1], p[1][2] * p[2][2]))
RLeq(x, y) == Let(<<x, y>>, LAMBDA p : p[1][1] * p[2][2] <= p[2][1] * p[1][2])
RLt(x, y) == Let(<<x, y>>, LAMBDA p : p[1][1] * p[2][2] < p[2][1] * p[1][2])
RFloor(x) == Let(x, LAMBDA p : p[1] \div p[2])
\* Python's x % c for a positive cycle c: the result lies in [0, c)
RMod(x, c) == Let(<<x, c>>, LAMBDA p : RSub(p[1], RMul(p[2], R((p[1][1] * p[2][2]) \div (p[1][2] * p[2][1])))))
\* int(x): truncation toward zero
RTrunc(x) == Let(x, LAMBDA p : IF p[1] >= 0 THEN p[1] \div p[2] ELSE -((-p[1]) \div p[2]))
\* nearest integer, ties upward
RRound(x) == RFloor(RAdd(x, <<1, 2>>))

(***************************************************************************)
(* utils.py                                                                *)
(***************************************************************************)
\* max(min_value, min(max_value, value))
clamp(value, min_value, max_value) ==
    Let(<<value, min_value, max_value>>, LAMBDA p :
        Let(IF RLeq(p[3], p[1]) THEN p[3] ELSE p[1], LAMBDA lo :
            IF RLeq(lo, p[2]) THEN p[2] ELSE lo))

(***************************************************************************)
(* TwilightState                                                           *)
(***************************************************************************)
CYCLICAL_ATTRIBUTES ==
    [time_of_day |-> R(24), latitude |-> R(360), longitude |-> R(360)]

\* TwilightState.__init__ with valid numeric arguments: every field goes
\* through its setter (int() for width, height and seed, the modulo of the
\* cycle for the cyclical fields, clamp for density and transition ratio).
TwilightState(width, height, seed, time_of_day, star_density, transition_ratio, latitude, longitude, render_type) ==
    [width            |-> RTrunc(width),
     height           |-> RTrunc(height),
     seed             |-> RTrunc(seed),
     time_of_day      |-> RMod(time_of_day, CYCLICAL_ATTRIBUTES.time_of_day),
     star_density     |-> clamp(star_density, <<1, 10>>, R(5)),
     transition_ratio |-> clamp(transition_ratio, <<1, 20>>, <<1, 2>>),
     latitude         |-> RMod(latitude, CYCLICAL_ATTRIBUTES.latitude),
     longitude        |-> RMod(longitude, CYCLICAL_ATTRIBUTES.longitude),
     render_type      |-> render_type]

\* TwilightState.copy: a new state built from the nine fields of s
copy(s) ==
    Let(s, LAMBDA self :
        TwilightState(R(self.width), R(self.height), R(self.seed), self.time_of_day,
                      self.star_density, self.transition_ratio, self.latitude,
                      self.longitude, self.render_type))

(***************************************************************************)
(* Python values as the setters receive them.  A number is num * 2^exp:    *)
(* exp = 0 for the numbers the model computes with exactly, and            *)
(* ldexp(q, e) with 0 < |q| <= 1 and e <= -64 is a float far below every   *)
(* threshold of the program, such as -1e-20.                               *)
(***************************************************************************)
PyInt(n) == [type |-> "int", num |-> R(n), exp |-> 0, str |-> ""]
PyFloat(q) == [type |-> "float", num |-> q, exp |-> 0, str |-> ""]
ldexp(q, e) == [type |-> "float", num |-> q, exp |-> e, str |-> ""]
PyStr(s) == [type |-> "str", num |-> R(0), exp |-> 0, str |-> s]
PyNone == [type |-> "NoneType", num |-> R(0), exp |-> 0, str |-> ""]

\* isinstance(value, (int, float))
isinstance_number(value) == value.type \in {"int", "float"}
\* isinstance(value, str)
isinstance_str(value) == value.type = "str"

\* the largest k with 2^k <= n, for n >= 1
RECURSIVE ILog2(_)
ILog2(n) == IF n < 2 THEN 0 ELSE 1 + ILog2(n \div 2)

\* value > 0 and value < 0 of a number
IsPositive(value) == value.num[1] > 0
IsNegative(value) == value.num[1] < 0

\* the exact value of a number with exp = 0 (the non-cyclical setters are
\* applied to such numbers only)
Exact(value) == CASE value.exp = 0 -> value.num

\* int(value)
int(value) == RTrunc(Exact(value))

\* Python's value % c for a float cycle c > 0: mod = fmod(value, c), and
\* when mod is nonzero and negative, mod += c, a float addition that is
\* rounded to 53 significant bits.  For exp = 0 the sum is exact.  A
\* negative value of magnitude at most 2^(ILog2(c) - 53), half the spacing
\* of the floats below c, is its own fmod, and c plus it rounds to c.
float_mod(value, c) ==
    CASE value.exp = 0 -> RMod(value.num, c)
      [] value.exp < 0 /\ IsNegative(value) /\ value.exp <= ILog2(RFloor(c)) - 53 -> c

\* str.lower() on the strings of the model
lower(s) ==
    CASE s = "FLAT" -> "flat"
      [] s = "Spherical" -> "spherical"
      [] s = "Backward" -> "backward"
      [] OTHER -> s

(***************************************************************************)
(* The property setters of TwilightState: None when the setter raises      *)
(* ValueError, else Some(self) with the field assigned.                    *)
(***************************************************************************)
width_setter(self, value) ==
    IF isinstance_number(value) /\ IsPositive(value)
    THEN Some([self EXCEPT !.width = int(value)])
    ELSE None

height_setter(self, value) ==
    IF isinstance_number(value) /\ IsPositive(value)
    THEN Some([self EXCEPT !.height = int(value)])
    ELSE None

\* the seed setter that clamps into [0, 1000000] where the code raises
seed_setter_clamping(self, value) ==
    IF isinstance_number(value)
    THEN Some([self EXCEPT !.seed = RTrunc(clamp(Exact(value), R(0), R(1000000)))])
    ELSE None

seed_setter(self, value) ==
    IF isinstance_number(value) /\ ~IsNegative(value) /\ RLeq(Exact(value), R(1000000))
    THEN Some([self EXCEPT !.seed = int(value)])
    ELSE None

time_of_day_setter(self, value) ==
    IF isinstance_number(value)
    THEN Some([self EXCEPT !.time_of_day = float_mod(value, CYCLICAL_ATTRIBUTES.time_of_day)])
    ELSE None

star_density_setter(self, value) ==
    IF isinstance_number(value)
    THEN Some([self EXCEPT !.star_density = clamp(Exact(value), <<1, 10>>, R(5))])
    ELSE None

transition_ratio_setter(self, value) ==
    IF isinstance_number(value)
    THEN Some([self EXCEPT !.transition_ratio = clamp(Exact(value), <<1, 20>>, <<1, 2>>)])
    ELSE None

latitude_setter(self, value) ==
    IF isinstance_number(value)
    THEN Some([self EXCEPT !.latitude = float_mod(value, CYCLICAL_ATTRIBUTES.latitude)])
    ELSE None

longitude_setter(self, value) ==
    IF isinstance_number(value)
    THEN Some([self EXCEPT !.longitude = float_mod(value, CYCLICAL_ATTRIBUTES.longitude)])
    ELSE None

render_type_setter(self, value) ==
    IF isinstance_str(value) /\ lower(value.str) \in {"spherical", "flat"}
    THEN Some([self EXCEPT !.render_type = lower(value.str)])
    ELSE None

\* the names of the nine fields, in the order __init__ assigns them
FieldNames ==
    <<"width", "height", "seed", "time_of_day", "star_density", "transition_ratio",
      "latitude", "longitude", "render_type">>

\* self.<name> = value
setattr(self, name, value) ==
    CASE name = "width" -> width_setter(self, value)
      [] name = "height" -> height_setter(self, value)
      [] name = "seed" -> seed_setter(self, value)
      [] name = "time_of_day" -> time_of_day_setter(self, value)
      [] name = "star_density" -> star_density_setter(self, value)
      [] name = "transition_ratio" -> transition_ratio_setter(self, value)
      [] name = "latitude" -> latitude_setter(self, value)
      [] name = "longitude" -> longitude_setter(self, value)
      [] name = "render_type" -> render_type_setter(self, value)

\* the object __init__ starts from: every private attribute is None
NewObject ==
    [width |-> None, height |-> None, seed |-> None, time_of_day |-> None,
     star_density |-> None, transition_ratio |-> None, latitude |-> None,
     longitude |-> None, render_type |-> None]

\* the assignments of __init__ from the i-th on: the first setter that
\* raises ends the construction
RECURSIVE init_from(_, _, _)
init_from(self, args, i) ==
    IF i > Len(FieldNames) THEN Some(self)
    ELSE Let(setattr(self, FieldNames[i], args[FieldNames[i]]), LAMBDA r :
             IF r = None THEN None ELSE init_from(r[1], args, i + 1))

\* the seeds random.randint(0, 1000000) may return (the two ends and one between)
RandomSeeds == {PyInt(0), PyInt(424242), PyInt(1000000)}

\* seed if seed is truthy else random.randint(0, 1000000)
seed_or_random_falsy(seed) ==
    IF seed.type = "NoneType" \/ seed = PyInt(0) THEN RandomSeeds ELSE {seed}

\* seed if seed is not None else random.randint(0, 1000000): the values the
\* seed setter may be handed
seed_or_random(seed) == IF seed.type = "NoneType" THEN RandomSeeds ELSE {seed}

\* TwilightState.__init__(**args): the set of outcomes, each None (ValueError)
\* or Some(fields); more than one only when the seed is drawn at random
TwilightState_init(args) ==
    {init_from(NewObject, [args EXCEPT !.seed = sd], 1) : sd \in seed_or_random(args.seed)}

\* the default arguments of __init__
DefaultArgs ==
    [width |-> PyInt(1920), height |-> PyInt(1080), seed |-> PyNone,
     time_of_day |-> PyFloat(R(0)), star_density |-> PyFloat(R(1)),
     transition_ratio |-> PyFloat(<<1, 5>>), latitude |-> PyFloat(R(0)),
     longitude |-> PyFloat(R(0)), render_type |-> PyStr("spherical")]

\* the keyword arguments copy() passes: the nine properties of self
copy_args(self) ==
    [width |-> PyInt(self.width), height |-> PyInt(self.height), seed |-> PyInt(self.seed),
     time_of_day |-> PyFloat(self.time_of_day), star_density |-> PyFloat(self.star_density),
     transition_ratio |-> PyFloat(self.transition_ratio), latitude |-> PyFloat(self.latitude),
     longitude |-> PyFloat(self.longitude), render_type |-> PyStr(self.render_type)]

\* TwilightState.copy() of any constructed state: the outcomes of the
\* constructor call it makes
copy_outcomes(self) == TwilightState_init(copy_args(self))

\* interpolate_states(a, b, t, direction): linear fields a + (b - a) * t,
\* integer fields rounded to the nearest integer, cyclical fields swept
\* around the cycle in the given direction, render_type taken from a.
\* the cyclical rule with a delta in (0, c]: equal endpoints are a full turn apart
interpolate_cyclical_full_turn(a, b, t, c, direction) ==
    Let(<<a, b, t, c>>, LAMBDA p :
        IF direction = "forward"
        THEN RMod(RAdd(p[1], RMul(RSub(p[4], RMod(RSub(p[1], p[2]), p[4])), p[3])), p[4])
        ELSE RMod(RSub(p[1], RMul(RSub(p[4], RMod(RSub(p[2], p[1]), p[4])), p[3])), p[4]))

\* the cyclical rule along the shorter arc, whatever the direction
interpolate_cyclical_shortest(a, b, t, c, direction) ==
    Let(<<a, b, t, c>>, LAMBDA p :
        Let(RMod(RSub(p[2], p[1]), p[4]), LAMBDA delta :
            IF RLeq(RAdd(delta, delta), p[4])
            THEN RMod(RAdd(p[1], RMul(delta, p[3])), p[4])
            ELSE RMod(RSub(p[1], RMul(RSub(p[4], delta), p[3])), p[4])))

interpolate_cyclical(a, b, t, c, direction) ==
    Let(<<a, b, t, c>>, LAMBDA p :
        IF direction = "forward"
        THEN RMod(RAdd(p[1], RMul(RMod(RSub(p[2], p[1]), p[4]), p[3])), p[4])
        ELSE RMod(RSub(p[1], RMul(RMod(RSub(p[1], p[2]), p[4]), p[3])), p[4]))

interpolate_linear(a, b, t) ==
    Let(<<a, b, t>>, LAMBDA p : RAdd(p[1], RMul(RSub(p[2], p[1]), p[3])))

interpolate_fields(a, b, t, direction) ==
    TwilightState(
        R(RRound(interpolate_linear(R(a.width), R(b.width), t))),
        R(RRound(interpolate_linear(R(a.height), R(b.height), t))),
        R(RRound(interpolate_linear(R(a.seed), R(b.seed), t))),
        interpolate_cyclical(a.time_of_day, b.time_of_day, t, CYCLICAL_ATTRIBUTES.time_of_day, direction),
        interpolate_linear(a.star_density, b.star_density, t),
        interpolate_linear(a.transition_ratio, b.transition_ratio, t),
        interpolate_cyclical(a.latitude, b.latitude, t, CYCLICAL_ATTRIBUTES.latitude, direction),
        interpolate_cyclical(a.longitude, b.longitude, t, CYCLICAL_ATTRIBUTES.longitude, direction),
        a.render_type)

interpolate_direction(a, b, t, direction) ==
    Let(<<a, b, t>>, LAMBDA p : interpolate_fields(p[1], p[2], p[3], direction))

\* the three-argument call of Timeline.get_state_at_frame: no direction is
\* passed, the interpolator's default direction applies
interpolate_states(a, b, t) == interpolate_direction(a, b, t, "forward")

(***************************************************************************)
(* The objects of the model.                                               *)
(***************************************************************************)
\* TwilightState objects held by keyframes: reference |-> value
KeyframeStates ==
    <<TwilightState(R(800), R(600), R(0), R(20), R(1), <<1, 5>>, R(350), R(0), "flat"),
      TwilightState(R(1280), R(720), R(12), R(6), <<1, 5>>, <<1, 2>>, R(10), R(180), "spherical")>>

StateRefs == DOMAIN KeyframeStates
\* the reference of the object a sample returns when it returns a new one
NewRef == Len(KeyframeStates) + 1
Refs == StateRefs \cup {NewRef}

FrameNumbers == 0 .. MaxFrame
\* frame numbers a caller samples at: also before and after every keyframe
SampleFrames == -1 .. MaxFrame + 1

\* Keyframe objects: state is the reference of a TwilightState object
Keyframe(state, frame_number) == [state |-> state, frame_number |-> frame_number]
KeyframeObjs == {Keyframe(s, f) : s \in StateRefs, f \in FrameNumbers}
\* an object of another type (its fields are never read)
NotAKeyframe == [state |-> NewRef + 1, frame_number |-> 0]
isinstance_Keyframe(kf) == kf.state \in StateRefs
Objs == KeyframeObjs \cup {NotAKeyframe}

\* all sequences over S of length at most n
SeqsUpTo(S, n) == UNION {[1 .. k -> S] : k \in 0 .. n}

(***************************************************************************)
(* list.sort(key=lambda kf: kf.frame_number): a stable sort                *)
(***************************************************************************)
RECURSIVE InsertByFrame(_, _)
InsertByFrame(sorted, kf) ==
    IF sorted = <<>> THEN <<kf>>
    ELSE IF sorted[Len(sorted)].frame_number <= kf.frame_number
         THEN Append(sorted, kf)
         ELSE Append(InsertByFrame(SubSeq(sorted, 1, Len(sorted) - 1), kf), sorted[Len(sorted)])

RECURSIVE SortFrom(_, _, _)
SortFrom(kfs, i, acc) ==
    IF i > Len(kfs) THEN acc ELSE SortFrom(kfs, i + 1, InsertByFrame(acc, kfs[i]))

\* update() without the sort: the list stays in the order it was given
sort_missing(kfs) == kfs

sort(kfs) == SortFrom(kfs, 1, <<>>)

\* list.pop(i)
pop(kfs, i) == SubSeq(kfs, 1, i - 1) \o SubSeq(kfs, i + 1, Len(kfs))

\* the first position of kfs whose keyframe is in the set hits, 0 when there
\* is none: the loop with break of add_keyframe and remove_keyframe
FirstIndex(kfs, hits) ==
    IF \E i \in 1 .. Len(kfs) : kfs[i] \in hits
    THEN CHOOSE i \in 1 .. Len(kfs) : kfs[i] \in hits /\ \A j \in 1 .. i - 1 : kfs[j] \notin hits
    ELSE 0

\* the keyframes of kfs at frame_number
AtFrame(kfs, frame_number) == {kfs[i] : i \in {j \in 1 .. Len(kfs) : kfs[j].frame_number = frame_number}}

(***************************************************************************)
(* Timeline: self is [keyframes, start_frame, end_frame, framerate]        *)
(***************************************************************************)
\* Timeline.update
update(self, reset_start_end) ==
    LET kfs == sort(SelectSeq(self.keyframes, isinstance_Keyframe))
    IN  IF kfs # <<>> /\ reset_start_end
        THEN [self EXCEPT !.keyframes = kfs,
                          !.start_frame = kfs[1].frame_number,
                          !.end_frame = kfs[Len(kfs)].frame_number]
        ELSE [self EXCEPT !.keyframes = kfs]

\* Timeline.__init__
Timeline(keyframes, framerate, start_frame, end_frame) ==
    update(
        IF keyframes = <<>>
        THEN [keyframes |-> <<>>, start_frame |-> 0, end_frame |-> 0, framerate |-> framerate]
        ELSE [keyframes |-> keyframes,
              start_frame |-> IF start_frame # None THEN start_frame[1] ELSE keyframes[1].frame_number,
              end_frame |-> IF end_frame # None THEN end_frame[1] ELSE keyframes[Len(keyframes)].frame_number,
              framerate |-> framerate],
        TRUE)

\* Timeline.add_keyframe, for an argument that is a Keyframe
add_keyframe(self, keyframe) ==
    LET i == FirstIndex(self.keyframes, AtFrame(self.keyframes, keyframe.frame_number))
        kept == IF i > 0 THEN pop(self.keyframes, i) ELSE self.keyframes
    IN  update([self EXCEPT !.keyframes = Append(kept, keyframe)], TRUE)

\* remove_keyframe with the index tested as index < len(keyframes) only:
\* list.pop(index) counts a negative index from the end of the list
remove_keyframe_negative_index(self, frame_number, index, keyframe) ==
    IF frame_number # None
    THEN LET i == FirstIndex(self.keyframes, AtFrame(self.keyframes, frame_number[1]))
         IN  IF i > 0 THEN [self EXCEPT !.keyframes = pop(@, i)] ELSE self
    ELSE IF index # None /\ -Len(self.keyframes) <= index[1] /\ index[1] < Len(self.keyframes)
    THEN [self EXCEPT !.keyframes =
              pop(@, IF index[1] < 0 THEN Len(@) + index[1] + 1 ELSE index[1] + 1)]
    ELSE IF keyframe # None /\ isinstance_Keyframe(keyframe[1])
            /\ \E j \in 1 .. Len(self.keyframes) : self.keyframes[j] = keyframe[1]
    THEN [self EXCEPT !.keyframes = pop(@, FirstIndex(@, {keyframe[1]}))]
    ELSE self

\* Timeline.remove_keyframe: each argument is None or a value
remove_keyframe(self, frame_number, index, keyframe) ==
    IF frame_number # None
    THEN LET i == FirstIndex(self.keyframes, AtFrame(self.keyframes, frame_number[1]))
         IN  IF i > 0 THEN [self EXCEPT !.keyframes = pop(@, i)] ELSE self
    ELSE IF index # None /\ 0 <= index[1] /\ index[1] < Len(self.keyframes)
    THEN [self EXCEPT !.keyframes = pop(@, index[1] + 1)]
    ELSE IF keyframe # None /\ isinstance_Keyframe(keyframe[1])
            /\ \E j \in 1 .. Len(self.keyframes) : self.keyframes[j] = keyframe[1]
    THEN [self EXCEPT !.keyframes = pop(@, FirstIndex(@, {keyframe[1]}))]
    ELSE self

\* keyframes[i].state.copy() as get_state_at_frame returns it: a new object
\* whose fields are those of the object at ref
state_copy(h, ref) == [ref |-> NewRef, value |-> copy(h[ref])]

\* the loop of get_state_at_frame over adjacent pairs, from position i: the
\* first i with keyframes[i].frame_number <= frame_number <=
\* keyframes[i + 1].frame_number, 0 when the loop ends without one
\* the loop with strict comparisons, start_frame < frame_number < end_frame
RECURSIVE find_bracket_strict(_, _, _)
find_bracket_strict(kfs, frame_number, i) ==
    IF i > Len(kfs) - 1 THEN 0
    ELSE IF kfs[i].frame_number < frame_number /\ frame_number < kfs[i + 1].frame_number
         THEN i
         ELSE find_bracket_strict(kfs, frame_number, i + 1)

\* the loop keeping the last pair that brackets the frame instead of
\* returning at the first
RECURSIVE find_bracket_last(_, _, _)
find_bracket_last(kfs, frame_number, i) ==
    IF i > Len(kfs) - 1 THEN 0
    ELSE Let(find_bracket_last(kfs, frame_number, i + 1), LAMBDA later :
             IF later > 0 THEN later
             ELSE IF kfs[i].frame_number <= frame_number /\ frame_number <= kfs[i + 1].frame_number
                  THEN i
                  ELSE 0)

RECURSIVE find_bracket(_, _, _)
find_bracket(kfs, frame_number, i) ==
    IF i > Len(kfs) - 1 THEN 0
    ELSE IF kfs[i].frame_number <= frame_number /\ frame_number <= kfs[i + 1].frame_number
         THEN i
         ELSE find_bracket(kfs, frame_number, i + 1)

\* t = (frame_number - start_frame) / steps_between if steps_between > 0 else 0
\* the blend factor by integer division, (frame_number - start_frame) // steps_between
blend_factor_floordiv(start_frame, end_frame, frame_number) ==
    LET steps_between == end_frame - start_frame
    IN  IF steps_between > 0 THEN R((frame_number - start_frame) \div steps_between) ELSE R(0)

blend_factor(start_frame, end_frame, frame_number) ==
    LET steps_between == end_frame - start_frame
    IN  IF steps_between > 0 THEN Rat(frame_number - start_frame, steps_between) ELSE R(0)

\* the call of interpolate_states get_state_at_frame makes on the sorted,
\* non-empty list kfs: None when it makes none, else the bracket it chose
\* and the arguments it passes
interpolation(kfs, frame_number) ==
    IF frame_number <= kfs[1].frame_number \/ frame_number >= kfs[Len(kfs)].frame_number
    THEN None
    ELSE Let(find_bracket(kfs, frame_number, 1), LAMBDA i :
             IF i > 0
             THEN Some([start_frame |-> kfs[i].frame_number, start_state |-> kfs[i].state,
                        end_frame |-> kfs[i + 1].frame_number, end_state |-> kfs[i + 1].state,
                        t |-> blend_factor(kfs[i].frame_number, kfs[i + 1].frame_number,
                                           frame_number)])
             ELSE None)

\* get_state_at_frame once the list kfs is filtered, non-empty and sorted
state_in_sorted(kfs, h, frame_number) ==
    IF frame_number <= kfs[1].frame_number
    THEN Some(state_copy(h, kfs[1].state))
    ELSE IF frame_number >= kfs[Len(kfs)].frame_number
    THEN Some(state_copy(h, kfs[Len(kfs)].state))
    ELSE Let(interpolation(kfs, frame_number), LAMBDA call :
             IF call # None
             THEN Some([ref |-> NewRef,
                        value |-> interpolate_states(h[call[1].start_state], h[call[1].end_state],
                                                     call[1].t)])
             ELSE None)

\* the list get_state_at_frame works on, filtering the caller's list in place
\* (keyframes[:] = [kf for kf in keyframes if isinstance(kf, Keyframe)])
working_list_in_place(self, keyframes) ==
    IF keyframes = None
    THEN [kfs |-> self.keyframes, is |-> "self.keyframes"]
    ELSE [kfs |-> SelectSeq(keyframes[1], isinstance_Keyframe), is |-> "keyframes"]

\* the list get_state_at_frame works on and sorts, and which list object it
\* is: the timeline's own list, or a new list holding the Keyframe objects of
\* the caller's list
working_list(self, keyframes) ==
    IF keyframes = None
    THEN [kfs |-> self.keyframes, is |-> "self.keyframes"]
    ELSE [kfs |-> SelectSeq(keyframes[1], isinstance_Keyframe), is |-> "new list"]

\* Timeline.get_state_at_frame(frame_number, keyframes) over heap h.
\*   ret:  None, or Some([ref, value]) the object returned
\*   list: the list the method worked on, as the method leaves it
\*   arg:  the list the caller passed, as the method leaves it
\*   call: the call of interpolate_states the method made, if any
get_state_at_frame(self, h, frame_number, keyframes) ==
    Let(working_list(self, keyframes), LAMBDA w :
        IF w.kfs = <<>>
        THEN [ret |-> None, list |-> w.kfs, call |-> None,
              arg |-> IF w.is = "keyframes" THEN Some(w.kfs) ELSE keyframes]
        ELSE Let(sort(w.kfs), LAMBDA kfs :
                 [ret |-> state_in_sorted(kfs, h, frame_number), list |-> kfs,
                  call |-> interpolation(kfs, frame_number),
                  arg |-> IF w.is = "keyframes" THEN Some(kfs) ELSE keyframes]))

\* the time_of_day setter
set_time_of_day(s, value) ==
    [s EXCEPT !.time_of_day = RMod(value, CYCLICAL_ATTRIBUTES.time_of_day)]

(***************************************************************************)
(* The state machine: one Timeline and its caller.                         *)
(***************************************************************************)
VARIABLES
    keyframes,      \* Timeline.keyframes
    start_frame,    \* Timeline.start_frame
    end_frame,      \* Timeline.end_frame
    framerate,      \* Timeline.framerate
    heap,           \* the TwilightState objects: reference |-> fields
    result,         \* what the last get_state_at_frame returned: None or Some(ref)
    overridden,     \* whether the constructor was given a start_frame or an end_frame
    last,           \* the call the caller is looking at: its arguments and the
                    \* timeline before it; NoCall between two calls
    calls,          \* how many calls the caller has made, where the model bounds them
    animators,      \* the TwilightAnimator objects
    generators,     \* the TwilightGenerator objects
    thread          \* the TwilightGeneratorThread object and its caller, None without one

vars == <<keyframes, start_frame, end_frame, framerate, heap, result, overridden, last,
          calls, animators, generators, thread>>

\* the objects the Timeline's caller does not have
others == <<calls, animators, generators, thread>>
NoOthers == calls = 0 /\ animators = <<>> /\ generators = <<>> /\ thread = None

Self == [keyframes |-> keyframes, start_frame |-> start_frame,
         end_frame |-> end_frame, framerate |-> framerate]

\* the arguments the caller draws from
Framerates == {24, 30}
FrameArgs == {None} \cup {Some(f) : f \in {1, MaxFrame - 1}}
IndexArgs == {Some(i) : i \in -1 .. MaxKeyframes}
KeyframeArgs == {None} \cup {Some(o) : o \in Objs}
CallerLists ==
    {<<NotAKeyframe>>, <<Keyframe(2, MaxFrame), NotAKeyframe, Keyframe(1, 0)>>,
     <<Keyframe(1, 0), Keyframe(2, 1), Keyframe(1, 1), Keyframe(2, MaxFrame)>>}
CallerFrames == {0, 1}

Call(op, frame_number, index, keyframe, list, raised) ==
    [op |-> op, frame_number |-> frame_number, index |-> index, keyframe |-> keyframe,
     keyframes |-> list, start_arg |-> None, end_arg |-> None, raised |-> raised, pre |-> Self,
     passed |-> list, interpolated |-> None]

\* between two calls
NoCall ==
    [op |-> "none", frame_number |-> None, index |-> None, keyframe |-> None,
     keyframes |-> None, start_arg |-> None, end_arg |-> None, raised |-> FALSE, pre |-> None,
     passed |-> None, interpolated |-> None]

SetTimeline(self) ==
    /\ keyframes' = self.keyframes
    /\ start_frame' = self.start_frame
    /\ end_frame' = self.end_frame
    /\ framerate' = self.framerate

\* Timeline(keyframes, framerate, start_frame, end_frame) for any list of
\* Keyframe objects, in any order
Init ==
    \E list \in SeqsUpTo(KeyframeObjs, MaxInitLen), fr \in Framerates, sf \in FrameArgs, ef \in FrameArgs :
        /\ LET self == Timeline(list, fr, sf, ef)
           IN  /\ keyframes = self.keyframes
               /\ start_frame = self.start_frame
               /\ end_frame = self.end_frame
               /\ framerate = self.framerate
               /\ last = [op |-> "Timeline", frame_number |-> None, index |-> None,
                          keyframe |-> None, keyframes |-> Some(list), start_arg |-> sf,
                          end_arg |-> ef, raised |-> FALSE, pre |-> self,
                          passed |-> Some(list), interpolated |-> None]
               /\ overridden = (sf # None \/ ef # None)
        /\ heap = KeyframeStates
        /\ result = None
        /\ NoOthers

\* timeline.add_keyframe(kf)
AddKeyframe ==
    \E kf \in Objs :
        /\ last = NoCall
        /\ IF isinstance_Keyframe(kf)
           THEN \E self \in {add_keyframe(Self, kf)} :
                    /\ Len(self.keyframes) <= MaxKeyframes
                    /\ SetTimeline(self)
                    /\ last' = Call("add_keyframe", None, None, Some(kf), None, FALSE)
           ELSE /\ UNCHANGED <<keyframes, start_frame, end_frame, framerate>>
                /\ last' = Call("add_keyframe", None, None, Some(kf), None, TRUE)
        /\ UNCHANGED <<heap, result, overridden, others>>

\* timeline.remove_keyframe(frame_number=f)
RemoveByFrameNumber ==
    \E f \in SampleFrames :
        /\ last = NoCall
        /\ SetTimeline(remove_keyframe(Self, Some(f), None, None))
        /\ last' = Call("remove_keyframe", Some(f), None, None, None, FALSE)
        /\ UNCHANGED <<heap, result, overridden, others>>

\* timeline.remove_keyframe(index=i)
RemoveByIndex ==
    \E i \in IndexArgs :
        /\ last = NoCall
        /\ SetTimeline(remove_keyframe(Self, None, i, None))
        /\ last' = Call("remove_keyframe", None, i, None, None, FALSE)
        /\ UNCHANGED <<heap, result, overridden, others>>

\* timeline.remove_keyframe(keyframe=kf), and remove_keyframe() with no argument
RemoveByKeyframe ==
    \E kf \in KeyframeArgs :
        /\ last = NoCall
        /\ SetTimeline(remove_keyframe(Self, None, None, kf))
        /\ last' = Call("remove_keyframe", None, None, kf, None, FALSE)
        /\ UNCHANGED <<heap, result, overridden, others>>

\* what a call of get_state_at_frame does to the state
Sample(f, list) ==
    /\ last = NoCall
    /\ \E r \in {get_state_at_frame(Self, heap, f, list)} :
        /\ keyframes' = IF list = None THEN r.list ELSE keyframes
        /\ IF r.ret = None
           THEN /\ result' = None
                /\ heap' = heap
           ELSE /\ result' = Some(r.ret[1].ref)
                /\ heap' = [x \in DOMAIN heap \cup {r.ret[1].ref} |->
                               IF x = r.ret[1].ref THEN r.ret[1].value ELSE heap[x]]
        /\ last' = [Call("get_state_at_frame", Some(f), None, None, list, FALSE)
                       EXCEPT !.passed = r.arg, !.interpolated = r.call]
        /\ UNCHANGED <<start_frame, end_frame, framerate, overridden, others>>

\* timeline.get_state_at_frame(f)
GetStateAtFrame == \E f \in SampleFrames : Sample(f, None)

\* timeline.get_state_at_frame(f, list) with a list of the caller
GetStateAtFrameOfList == \E f \in CallerFrames, l \in CallerLists : Sample(f, Some(l))

\* the caller changes the state it was returned: returned.time_of_day = v
MutateResult ==
    /\ result # None
    /\ \E v \in {R(27)} :
        heap' = [heap EXCEPT ![result[1]] = set_time_of_day(@, v)]
    /\ last' = Call("set_time_of_day", None, None, None, None, FALSE)
    /\ UNCHANGED <<keyframes, start_frame, end_frame, framerate, result, overridden, others>>

\* the caller has seen what the call did and goes on to its next call; it
\* lets go of the state it was returned, if any: the returned object is gone
Done ==
    /\ last # NoCall
    /\ last' = NoCall
    /\ result' = None
    /\ heap' = [r \in StateRefs |-> heap[r]]
    /\ UNCHANGED <<keyframes, start_frame, end_frame, framerate, overridden, others>>

Next ==
    \/ AddKeyframe
    \/ RemoveByFrameNumber
    \/ RemoveByIndex
    \/ RemoveByKeyframe
    \/ GetStateAtFrame
    \/ GetStateAtFrameOfList
    \/ MutateResult
    \/ Done

Spec == Init /\ [][Next]_vars

(***************************************************************************)
(* The state machine of TwilightState objects: one is constructed, its     *)
(* caller sets fields and copies it.  heap[1] is the object, heap[2] its   *)
(* copy once copy() has returned one.                                      *)
(***************************************************************************)
\* a small negative float such as -1e-20
TinyNegative == ldexp(R(-1), -64)

\* the values the constructor is given for each field, one field at a time
FieldInputs ==
    [width            |-> {PyFloat(<<1, 2>>), PyInt(0), PyStr("wide")},
     height           |-> {PyInt(-600), PyFloat(<<7209, 10>>)},
     seed             |-> {PyInt(0), PyInt(-1), PyFloat(<<15, 2>>), PyInt(1000001)},
     time_of_day      |-> {PyInt(27), TinyNegative, PyStr("noon")},
     star_density     |-> {PyInt(9), PyNone},
     transition_ratio |-> {PyInt(0)},
     latitude         |-> {PyInt(-30), TinyNegative, PyInt(720)},
     longitude        |-> {PyFloat(<<741, 2>>), PyStr("east")},
     render_type      |-> {PyStr("FLAT"), PyStr("dome"), PyInt(3)}]

ConstructorArgs ==
    {DefaultArgs} \cup
    {[DefaultArgs EXCEPT ![FieldNames[i]] = v] :
        <<i, v>> \in UNION {{<<j, w>> : w \in FieldInputs[FieldNames[j]]} : j \in DOMAIN FieldNames}}

\* the assignments the caller makes to a constructed state
SetterInputs ==
    {<<"width", PyFloat(<<1, 2>>)>>, <<"width", PyInt(0)>>, <<"height", PyInt(720)>>,
     <<"seed", PyInt(-1)>>, <<"seed", PyFloat(<<15, 2>>)>>,
     <<"time_of_day", PyInt(27)>>, <<"time_of_day", PyNone>>,
     <<"star_density", PyInt(9)>>, <<"transition_ratio", PyStr("half")>>,
     <<"latitude", PyInt(-30)>>, <<"latitude", TinyNegative>>,
     <<"longitude", PyInt(720)>>,
     <<"render_type", PyStr("FLAT")>>, <<"render_type", PyStr("dome")>>}

\* the call the caller of a TwilightState is looking at
StateCall(op, args, ref, name, value, raised) ==
    [op |-> op, args |-> args, ref |-> ref, name |-> name, value |-> value,
     raised |-> raised, pre |-> heap]

NoTimeline ==
    /\ keyframes = <<>>
    /\ start_frame = 0
    /\ end_frame = 0
    /\ framerate = 30
    /\ result = None
    /\ overridden = FALSE

timelineVars == <<keyframes, start_frame, end_frame, framerate, result, overridden>>

\* state = TwilightState(**args)
StateInit ==
    \E args \in ConstructorArgs :
        \E r \in TwilightState_init(args) :
            /\ heap = IF r = None THEN <<>> ELSE <<r[1]>>
            /\ last = [op |-> "TwilightState", args |-> Some(args), ref |-> 1, name |-> "",
                       value |-> PyNone, raised |-> (r = None), pre |-> <<>>]
            /\ calls = 0
            /\ animators = <<>>
            /\ thread = None
            /\ generators = <<>>
            /\ NoTimeline

\* state.<name> = value, on the state or on its copy
SetAttr ==
    \E ref \in DOMAIN heap, nv \in SetterInputs :
        /\ calls < MaxSetterCalls
        /\ \E r \in {setattr(heap[ref], nv[1], nv[2])} :
               /\ heap' = IF r = None THEN heap ELSE [heap EXCEPT ![ref] = r[1]]
               /\ last' = StateCall("setattr", None, ref, nv[1], nv[2], r = None)
        /\ calls' = calls + 1
        /\ UNCHANGED <<timelineVars, animators, generators, thread>>

\* copied = state.copy()
CopyState ==
    /\ Len(heap) = 1
    /\ \E r \in copy_outcomes(heap[1]) :
           /\ heap' = IF r = None THEN heap ELSE Append(heap, r[1])
           /\ last' = StateCall("copy", None, 1, "", PyNone, r = None)
    /\ UNCHANGED <<timelineVars, calls, animators, generators, thread>>

StateNext ==
    \/ SetAttr
    \/ CopyState

SpecState == StateInit /\ [][StateNext]_vars

(***************************************************************************)
(* Properties.                                                             *)
(***************************************************************************)
IsSorted(kfs) ==
    \A i \in 1 .. Len(kfs) - 1 : kfs[i].frame_number <= kfs[i + 1].frame_number

Called(op) == last.op = op /\ ~last.raised

\* the list a get_state_at_frame call sampled: the timeline's keyframes, or
\* the Keyframes of the caller's list in ascending frame order
SampledList ==
    IF last.keyframes = None THEN keyframes
    ELSE sort(SelectSeq(last.keyframes[1], isinstance_Keyframe))

\* C1: after construction from any list and after every add_keyframe and
\* remove_keyframe, the keyframes are in ascending order of frame_number
C1_KeyframesSorted == IsSorted(keyframes)

\* add_keyframe put a keyframe in front of the keyframes the timeline had
C1_Witness ==
    /\ Called("add_keyframe")
    /\ last.pre.keyframes # <<>>
    /\ last.keyframe[1].frame_number < last.pre.keyframes[1].frame_number
    /\ keyframes[1] = last.keyframe[1]

\* C2: no two keyframes of the timeline have the same frame_number
C2_FrameNumbersUnique ==
    \A i, j \in 1 .. Len(keyframes) :
        i # j => keyframes[i].frame_number # keyframes[j].frame_number

\* C3: add_keyframe(kf) at a frame number the timeline already holds keeps
\* the number of keyframes, the keyframe stored at that frame number then
\* carries kf's state, and the keyframes at other frame numbers are as before
C3_AddExistingOverwrites ==
    (/\ Called("add_keyframe")
     /\ \E i \in 1 .. Len(last.pre.keyframes) :
            last.pre.keyframes[i].frame_number = last.keyframe[1].frame_number)
    => LET kf == last.keyframe[1]
           Other(k) == k.frame_number # kf.frame_number
       IN  /\ Len(keyframes) = Len(last.pre.keyframes)
           /\ \A i \in 1 .. Len(keyframes) :
                  keyframes[i].frame_number = kf.frame_number
                      => heap[keyframes[i].state] = heap[kf.state]
           /\ SelectSeq(keyframes, Other) = SelectSeq(last.pre.keyframes, Other)

\* C4: get_state_at_frame returns None exactly when there is no keyframe to
\* sample; with at least one keyframe it returns a state for every frame
C4_NoneIffEmpty ==
    Called("get_state_at_frame") => ((result = None) <=> (SampledList = <<>>))

\* a sample strictly inside a timeline of at least two keyframes returned a state
C4_Witness ==
    /\ Called("get_state_at_frame")
    /\ last.keyframes = None
    /\ Len(keyframes) >= 2
    /\ keyframes[1].frame_number < last.frame_number[1]
    /\ last.frame_number[1] < keyframes[Len(keyframes)].frame_number
    /\ result # None

\* C5: a sample at or before the first keyframe's frame equals the first
\* keyframe's state, a sample at or after the last keyframe's frame equals
\* the last keyframe's state, the returned state is a new object, and a
\* change made to it leaves the states of the keyframes as they were
C5_ClampedCopy ==
    /\ (Called("get_state_at_frame") /\ SampledList # <<>>)
       => LET kfs == SampledList
              f == last.frame_number[1]
          IN  /\ f <= kfs[1].frame_number
                    => /\ result # None
                       /\ heap[result[1]] = heap[kfs[1].state]
                       /\ result[1] \notin StateRefs
              /\ f >= kfs[Len(kfs)].frame_number
                    => /\ result # None
                       /\ heap[result[1]] = heap[kfs[Len(kfs)].state]
                       /\ result[1] \notin StateRefs
    /\ Called("set_time_of_day") => \A r \in StateRefs : heap[r] = KeyframeStates[r]

\* C6: a sample strictly between the first and the last keyframe's frame is
\* the interpolation of two adjacent keyframes (f0, s0), (f1, s1) with
\* f0 <= frame_number <= f1 at t = (frame_number - f0) / (f1 - f0)
C6_InterpolatesAdjacentPair ==
    (/\ Called("get_state_at_frame")
     /\ SampledList # <<>>
     /\ SampledList[1].frame_number < last.frame_number[1]
     /\ last.frame_number[1] < SampledList[Len(SampledList)].frame_number)
    => LET kfs == SampledList
           f == last.frame_number[1]
       IN  /\ result # None
           /\ \E i \in 1 .. Len(kfs) - 1 :
                  /\ kfs[i].frame_number <= f
                  /\ f <= kfs[i + 1].frame_number
                  /\ kfs[i].frame_number < kfs[i + 1].frame_number
                  /\ heap[result[1]] =
                         interpolate_states(heap[kfs[i].state], heap[kfs[i + 1].state],
                             Rat(f - kfs[i].frame_number,
                                 kfs[i + 1].frame_number - kfs[i].frame_number))

\* a sample between two keyframes with a third keyframe after them, at a
\* frame that is no keyframe's
C6_Witness ==
    /\ Called("get_state_at_frame")
    /\ last.keyframes = None
    /\ Len(keyframes) = 3
    /\ keyframes[1].frame_number < last.frame_number[1]
    /\ last.frame_number[1] < keyframes[2].frame_number
    /\ keyframes[2].frame_number < keyframes[3].frame_number
    /\ keyframes[1].state # keyframes[2].state
    /\ result # None

\* C7: a timeline without keyframes has start_frame = 0 and end_frame = 0
C7_EmptyTimelineZero ==
    keyframes = <<>> => (start_frame = 0 /\ end_frame = 0)

\* C8: a Timeline constructed from a non-empty keyframe list has the
\* start_frame and the end_frame it was given, and the first and the last
\* keyframe's frame_number for the one it was not given
C8_ConstructorOverrides ==
    (Called("Timeline") /\ keyframes # <<>>)
    => /\ start_frame = IF last.start_arg # None THEN last.start_arg[1]
                        ELSE keyframes[1].frame_number
       /\ end_frame = IF last.end_arg # None THEN last.end_arg[1]
                      ELSE keyframes[Len(keyframes)].frame_number

\* C9: when start_frame and end_frame were never overridden and a keyframe
\* is left, start_frame is the first keyframe's frame_number and end_frame
\* the last keyframe's
C9_DefaultStartEnd ==
    (~overridden /\ keyframes # <<>>)
    => /\ start_frame = keyframes[1].frame_number
       /\ end_frame = keyframes[Len(keyframes)].frame_number

\* C10: remove_keyframe(index=i) with i < 0 or i >= len(keyframes), and
\* remove_keyframe(frame_number=f) with an f no keyframe has, raise nothing
\* and leave keyframes, start_frame, end_frame and framerate as they were
C10_RemoveMissingIsNoOp ==
    (/\ last.op = "remove_keyframe"
     /\ \/ /\ last.index # None
           /\ last.index[1] < 0 \/ last.index[1] >= Len(last.pre.keyframes)
        \/ /\ last.frame_number # None
           /\ \A i \in 1 .. Len(last.pre.keyframes) :
                  last.pre.keyframes[i].frame_number # last.frame_number[1])
    => /\ ~last.raised
       /\ Self = last.pre

\* remove_keyframe(index=-1) was called on a timeline that has keyframes
C10_Witness ==
    /\ last.op = "remove_keyframe"
    /\ last.index = Some(-1)
    /\ last.pre.keyframes # <<>>
    /\ keyframes # <<>>

(***************************************************************************)
(* The interpolator and the end-to-end sample: two states a = heap[1] and  *)
(* b = heap[2], keyframes of a timeline at frames 0 and 100.               *)
(***************************************************************************)
\* the states that are interpolated
InterpolatedStates ==
    {KeyframeStates[1], KeyframeStates[2],
     TwilightState(R(1920), R(1080), R(424242), <<47, 2>>, R(5), <<1, 20>>, R(0), <<719, 2>>, "spherical")}

\* blend factors, also outside [0, 1]
BlendFactors == {<<-1, 2>>, R(0), <<1, 4>>, <<1, 2>>, R(1), <<3, 2>>}
Directions == {"forward", "backward"}

\* the frames of the end-to-end sample
EndToEndFrames == {-1, 0, 25, 50, 100, 101}

InterpolateInit ==
    \E a \in InterpolatedStates, b \in InterpolatedStates :
        /\ heap = <<a, b>>
        /\ LET self == Timeline(<<Keyframe(1, 0), Keyframe(2, 100)>>, 30, None, None)
           IN  /\ keyframes = self.keyframes
               /\ start_frame = self.start_frame
               /\ end_frame = self.end_frame
               /\ framerate = self.framerate
        /\ last = NoCall
        /\ result = None
        /\ overridden = FALSE
        /\ NoOthers

\* result = interpolate(a, b, t, direction)
Interpolate ==
    \E t \in BlendFactors, direction \in Directions :
        /\ last = NoCall
        /\ \E r \in {interpolate_direction(heap[1], heap[2], t, direction)} :
               heap' = [x \in DOMAIN heap \cup {NewRef} |-> IF x = NewRef THEN r ELSE heap[x]]
        /\ result' = Some(NewRef)
        /\ last' = [op |-> "interpolate", t |-> t, direction |-> direction, raised |-> FALSE]
        /\ UNCHANGED <<keyframes, start_frame, end_frame, framerate, overridden, others>>

\* timeline.get_state_at_frame(f) on the timeline of the two states
GetStateAtFrameEndToEnd == \E f \in EndToEndFrames : Sample(f, None)

InterpolateNext ==
    \/ Interpolate
    \/ GetStateAtFrameEndToEnd
    \/ Done

SpecInterpolate == InterpolateInit /\ [][InterpolateNext]_vars

(***************************************************************************)
(* TwilightAnimator: two animators over one timeline.  An animator is      *)
(* None when its constructor raised, else Some of                          *)
(*   direction, is_running, next_frame: the attributes of the object       *)
(*   pc:      where the animation thread stands: "idle" (not running),     *)
(*            "run" (started, at the head of run_animation), "loop" (at    *)
(*            the while test of sequence_generator), "yielded" (a frame    *)
(*            was yielded, at the test of _is_running), "emit" (about to   *)
(*            emit frame_generated)                                        *)
(*   yielded: the (frame_number, state) sequence_generator has yielded and *)
(*            run_animation has not handled yet                            *)
(*   emitted: what frame_generated carried last, None before the first     *)
(*   and, of the playback started last, until the animator is moved to a   *)
(*   frame,                                                                *)
(*   finished: how many times animation_finished was emitted               *)
(*   frames:  the frame numbers frame_generated carried, in order          *)
(*   first:   next_frame when the thread was started                       *)
(*   stop_at: None, or Some(Len(frames)) as it was at the first            *)
(*            stop_animation                                               *)
(***************************************************************************)
\* TwilightAnimator.__init__(timeline, direction) for a str direction
TwilightAnimator(timeline, direction) ==
    IF lower(direction) \in {"forward", "backward"}
    THEN Some([direction |-> lower(direction), is_running |-> FALSE,
               next_frame |-> timeline.start_frame, pc |-> "idle",
               yielded |-> None, emitted |-> None, finished |-> 0,
               frames |-> <<>>, stop_at |-> None, first |-> timeline.start_frame])
    ELSE None

\* the directions the two animators are constructed with
DirectionArgs ==
    {<<"forward", "backward">>, <<"forward", "Backward">>, <<"backward", "backward">>,
     <<"sideways", "forward">>}

\* the keyframe lists the animated timeline is constructed from
AnimatedLists ==
    {<<>>,
     <<Keyframe(1, 0), Keyframe(2, MaxFrame)>>,
     <<Keyframe(2, 1), Keyframe(1, MaxFrame)>>}

AnimatorInit ==
    \E list \in AnimatedLists, d \in DirectionArgs :
        /\ LET self == Timeline(list, 30, None, None)
           IN  /\ keyframes = self.keyframes
               /\ start_frame = self.start_frame
               /\ end_frame = self.end_frame
               /\ framerate = self.framerate
               /\ animators = <<TwilightAnimator(self, d[1]), TwilightAnimator(self, d[2])>>
        /\ heap = KeyframeStates
        /\ last = [op |-> "TwilightAnimator", direction |-> d, raised |-> FALSE]
        /\ result = None
        /\ overridden = FALSE
        /\ calls = 0
        /\ generators = <<>>
        /\ thread = None

SetAnimator(i, animator) ==
    /\ animators' = [animators EXCEPT ![i] = Some(animator)]
    /\ last' = [op |-> "animator", direction |-> <<>>, raised |-> FALSE]
    /\ UNCHANGED <<start_frame, end_frame, framerate, heap, result, overridden, calls, generators, thread>>

\* the frames the user interface moves an animator to
SeekFrames == {-1, 1, MaxFrame + 2}

\* set_current_frame(frame_number), as MainWindow.toggle_play calls it
\* before it starts the thread
SetCurrentFrame(i) ==
    \E frame_number \in SeekFrames :
        /\ animators[i] # None
        /\ animators[i][1].pc = "idle"
        /\ \E r \in {get_state_at_frame(Self, heap, frame_number, None)} :
               /\ keyframes' = r.list
               /\ SetAnimator(i, IF r.ret # None
                                 THEN [animators[i][1] EXCEPT !.next_frame = frame_number,
                                          !.finished = 0, !.frames = <<>>, !.stop_at = None,
                                          !.first = frame_number]
                                 ELSE animators[i][1])

\* AnimationThread.start(), as MainWindow.toggle_play calls it on a thread
\* that is not running: the thread is started and will call run_animation
StartThread(i) ==
    /\ animators[i] # None
    /\ animators[i][1].pc = "idle"
    /\ SetAnimator(i, [animators[i][1] EXCEPT !.pc = "run", !.finished = 0, !.frames = <<>>,
                           !.stop_at = None, !.first = animators[i][1].next_frame])
    /\ UNCHANGED keyframes

\* run_animation up to the loop: self._is_running = True
RunAnimation(i) ==
    /\ animators[i] # None
    /\ animators[i][1].pc = "run"
    /\ SetAnimator(i, [animators[i][1] EXCEPT !.is_running = TRUE, !.pc = "loop"])
    /\ UNCHANGED keyframes

\* the while test of sequence_generator with a strict comparison,
\* self.next_frame < self.timeline.end_frame
sequence_generator_test_strict(self, timeline) ==
    self.next_frame < timeline.end_frame /\ self.is_running

\* the while test of sequence_generator
sequence_generator_test(self, timeline) ==
    self.next_frame <= timeline.end_frame /\ self.is_running

\* sequence_generator from its while test to the yield: the state of
\* next_frame is sampled from the timeline and yielded; when the test fails
\* the generator ends, run_animation emits animation_finished and clears
\* _is_running
SequenceGenerator(i) ==
    /\ animators[i] # None
    /\ animators[i][1].pc = "loop"
    /\ LET self == animators[i][1]
       IN  IF sequence_generator_test(self, Self)
           THEN \E r \in {get_state_at_frame(Self, heap, self.next_frame, None)} :
                    /\ keyframes' = r.list
                    /\ IF r.ret # None
                       THEN SetAnimator(i, [self EXCEPT !.pc = "yielded",
                                !.yielded = Some([frame_number |-> self.next_frame,
                                                  state |-> r.ret[1].value])])
                       ELSE SetAnimator(i, [self EXCEPT !.next_frame = @ + 1])
           ELSE /\ SetAnimator(i, [self EXCEPT !.pc = "idle", !.is_running = FALSE,
                                                !.finished = @ + 1])
                /\ UNCHANGED keyframes

\* the test at the head of the body of run_animation's for loop: when
\* _is_running is false the loop is left, animation_finished is emitted and
\* run_animation ends
CheckRunning(i) ==
    /\ animators[i] # None
    /\ animators[i][1].pc = "yielded"
    /\ LET self == animators[i][1]
       IN  IF ~self.is_running
           THEN SetAnimator(i, [self EXCEPT !.pc = "idle", !.finished = @ + 1, !.yielded = None])
           ELSE SetAnimator(i, [self EXCEPT !.pc = "emit"])
    /\ UNCHANGED keyframes

\* the rest of the body: frame_generated is emitted, the thread sleeps, and
\* the generator, resumed, advances next_frame
EmitFrame(i) ==
    /\ animators[i] # None
    /\ animators[i][1].pc = "emit"
    /\ LET self == animators[i][1]
       IN  SetAnimator(i, [self EXCEPT !.pc = "loop", !.emitted = self.yielded,
                                       !.frames = Append(@, self.yielded[1].frame_number),
                                       !.yielded = None, !.next_frame = @ + 1])
    /\ UNCHANGED keyframes

\* stop_animation, called from the thread of the user interface while the
\* animation thread is running
StopAnimation(i) ==
    /\ animators[i] # None
    /\ animators[i][1].pc # "idle"
    /\ SetAnimator(i, [animators[i][1] EXCEPT
           !.is_running = FALSE,
           !.stop_at = IF @ = None THEN Some(Len(animators[i][1].frames)) ELSE @])
    /\ UNCHANGED keyframes

AnimatorNext ==
    \E i \in {1, 2} :
        \/ StartThread(i)
        \/ RunAnimation(i)
        \/ SequenceGenerator(i)
        \/ CheckRunning(i)
        \/ EmitFrame(i)
        \/ StopAnimation(i)

SpecAnimator == AnimatorInit /\ [][AnimatorNext]_vars

\* one animator, which its user also moves to a frame between two playbacks
PlaybackNext ==
    \/ SetCurrentFrame(1)
    \/ StartThread(1)
    \/ RunAnimation(1)
    \/ SequenceGenerator(1)
    \/ CheckRunning(1)
    \/ EmitFrame(1)
    \/ StopAnimation(1)

SpecPlayback == AnimatorInit /\ [][PlaybackNext]_vars

(***************************************************************************)
(* TwilightGenerator.  A draw of a random.Random(seed) object is the term  *)
(* [seed, draw, lo, hi]: the draw-th draw of the stream of that seed,      *)
(* uniform(lo, hi) or randint(lo, hi).  Two draws are the same number when *)
(* they are the same term.                                                 *)
(***************************************************************************)
max_density == 5
base_small_stars == 2500
base_big_stars == 200

uniform(seed, draw, lo, hi) == [seed |-> seed, draw |-> draw, kind |-> "uniform", lo |-> lo, hi |-> hi]
randint(seed, draw, lo, hi) == [seed |-> seed, draw |-> draw, kind |-> "randint", lo |-> lo, hi |-> hi]

Max(a, b) == IF a >= b THEN a ELSE b

\* [(uniform(0, 1), uniform(0, 1)) for _ in range(total)] on a new Random(seed)
small_stars(seed, total) ==
    [k \in 1 .. total |-> <<uniform(seed, 2 * k - 2, 0, 1), uniform(seed, 2 * k - 1, 0, 1)>>]

\* [(uniform(0, 1), uniform(0, 1), randint(size_min, size_max) / width)
\*  for _ in range(total)], drawn after the small stars
big_stars(seed, drawn, total, size_min, size_max, width) ==
    [k \in 1 .. total |->
        <<uniform(seed, drawn + 3 * k - 3, 0, 1), uniform(seed, drawn + 3 * k - 2, 0, 1),
          [size |-> randint(seed, drawn + 3 * k - 1, size_min, size_max), over |-> width]>>]

\* the attributes __init__ and set_state copy from the state
state_attributes(self, state) ==
    [self EXCEPT !.state = state, !.width = state.width, !.height = state.height,
                 !.seed = state.seed, !.time_of_day = state.time_of_day,
                 !.star_density = state.star_density,
                 !.transition_ratio = state.transition_ratio, !.latitude = state.latitude,
                 !.longitude = state.longitude, !.render_type = state.render_type]

\* int(base * scale_factor * max_density), scale_factor = (width * height) / (1920 * 1080)
total_stars(base, width, height) ==
    RTrunc(RMul(RMul(R(base), Rat(width * height, 1920 * 1080)), R(max_density)))

\* TwilightGenerator._initialize_stars, on the Random(seed) set_state has made
initialize_stars(self) ==
    [self EXCEPT
        !.master_small_stars = small_stars(self.seed, self.total_small_stars),
        !.master_big_stars =
            big_stars(self.seed, 2 * self.total_small_stars, self.total_big_stars, 1, 2, self.width)]

\* TwilightGenerator.__init__(state)
TwilightGenerator(state) ==
    LET attributes ==
            state_attributes(
                [state |-> state, width |-> 0, height |-> 0, seed |-> 0, time_of_day |-> R(0),
                 star_density |-> R(0), transition_ratio |-> R(0), latitude |-> R(0),
                 longitude |-> R(0), render_type |-> "", image |-> None,
                 total_small_stars |-> 0, total_big_stars |-> 0,
                 master_small_stars |-> <<>>, master_big_stars |-> <<>>], state)
        total_small == total_stars(base_small_stars, state.width, state.height)
        total_big == total_stars(base_big_stars, state.width, state.height)
        size_min == Max(1, state.width \div 960)
        size_max == Max(2, state.width \div 480)
    IN  [attributes EXCEPT
            !.total_small_stars = total_small,
            !.total_big_stars = total_big,
            !.master_small_stars = small_stars(state.seed, total_small),
            !.master_big_stars =
                big_stars(state.seed, 2 * total_small, total_big, size_min, size_max, state.width)]

\* TwilightGenerator.set_state(state)
set_state(self, state) == initialize_stars(state_attributes(self, state))

\* int(len(master) * density_ratio), density_ratio = star_density / max_density:
\* how many stars of a master list _generate_stars_flat and
\* _generate_stars_spherical draw
stars_display(self, master) ==
    RTrunc(RMul(R(Len(master)), RMul(self.star_density, <<1, max_density>>)))

total_small_stars_display(self) == stars_display(self, self.master_small_stars)
total_big_stars_display(self) == stars_display(self, self.master_big_stars)

\* what generate paints: the attributes it reads and the stars it draws
render(self) ==
    [of    |-> [width |-> self.width, height |-> self.height, seed |-> self.seed,
                time_of_day |-> self.time_of_day, star_density |-> self.star_density,
                transition_ratio |-> self.transition_ratio, latitude |-> self.latitude,
                longitude |-> self.longitude, render_type |-> self.render_type],
     small |-> SubSeq(self.master_small_stars, 1, total_small_stars_display(self)),
     big   |-> SubSeq(self.master_big_stars, 1, total_big_stars_display(self))]

\* TwilightGenerator.generate()
generate(self) == [self EXCEPT !.image = Some(render(self))]

\* TwilightGenerator.get_image(): the generator after the call; the image
\* returned is a copy of its image
get_image(self) == IF self.image = None THEN generate(self) ELSE self

(***************************************************************************)
(* The state machine of two TwilightGenerator objects and their caller.    *)
(***************************************************************************)
\* the states the generators are given
GeneratorStates ==
    {TwilightState(R(64), R(36), R(42), R(0), R(1), <<1, 5>>, R(0), R(0), "flat"),
     TwilightState(R(96), R(54), R(42), R(0), R(5), <<1, 5>>, R(0), R(0), "flat"),
     TwilightState(R(1920), R(2), R(7), R(0), <<5, 2>>, <<1, 5>>, R(0), R(0), "spherical")}

GeneratorRefs == {1, 2}

GeneratorInit ==
    \E s1 \in GeneratorStates, s2 \in GeneratorStates :
        /\ generators = <<TwilightGenerator(s1), TwilightGenerator(s2)>>
        /\ last = [op |-> "TwilightGenerator", ref |-> 0, raised |-> FALSE]
        /\ heap = <<>>
        /\ calls = 0
        /\ animators = <<>>
        /\ thread = None
        /\ NoTimeline

\* generators[i].set_state(state)
SetState ==
    \E i \in GeneratorRefs, state \in GeneratorStates :
        /\ generators' = [generators EXCEPT ![i] = set_state(@, state)]
        /\ last' = [op |-> "set_state", ref |-> i, raised |-> FALSE]
        /\ UNCHANGED <<timelineVars, heap, calls, animators, thread>>

\* generators[i].get_image()
GetImage ==
    \E i \in GeneratorRefs :
        /\ generators' = [generators EXCEPT ![i] = get_image(@)]
        /\ last' = [op |-> "get_image", ref |-> i, raised |-> FALSE]
        /\ UNCHANGED <<timelineVars, heap, calls, animators, thread>>

GeneratorNext == SetState \/ GetImage

SpecGenerator == GeneratorInit /\ [][GeneratorNext]_vars

(***************************************************************************)
(* The colour of a star.  math.cos is taken at the multiples of pi where   *)
(* its value is rational; at the times of day of StarTimes the floating    *)
(* point results cut to the same integers as the exact ones, for every     *)
(* channel value 0 .. 255.                                                 *)
(***************************************************************************)
orange == <<255, 72, 0>>
blue == <<0, 110, 189>>
white == <<255, 255, 255>>

\* math.cos(x * math.pi)
cos_pi(x) ==
    CASE x = R(0) -> R(1)
      [] x = R(1) -> R(-1)
      [] x = <<4, 3>> -> <<-1, 2>>
      [] x = <<3, 2>> -> R(0)

\* utils.lerp
lerp(a, b, t) == RAdd(RMul(RSub(R(1), t), a), RMul(t, b))

\* -math.cos((self.time_of_day / 12.0) * math.pi) * 0.5 + 0.5, of get_star_color
star_color_night_factor(self) ==
    RAdd(RMul(RMul(R(-1), cos_pi(RMul(self.time_of_day, <<1, 12>>))), <<1, 2>>), <<1, 2>>)

\* -math.cos((self.time_of_day / 12.0) * math.pi) * 0.5 + 1, of _generate_stars_flat
flat_night_factor(self) ==
    RAdd(RMul(RMul(R(-1), cos_pi(RMul(self.time_of_day, <<1, 12>>))), <<1, 2>>), R(1))

\* whether get_star_color(y) takes the branch that applies the night factor
below_cutoff(self, y) == RLt(Rat(y, self.height), self.transition_ratio)

\* TwilightGenerator.get_star_color(y)
get_star_color(self, y) ==
    IF below_cutoff(self, y)
    THEN LET t == RMul(Rat(y, self.height), <<self.transition_ratio[2], self.transition_ratio[1]>>)
             night_factor == star_color_night_factor(self)
         IN  [c \in 1 .. 3 |->
                 RTrunc(RMul(R(RTrunc(lerp(R(orange[c]), R(blue[c]), t))), night_factor))]
    ELSE white

\* tuple(int(c * night_factor) for c in self.white), of _generate_stars_flat
flat_star_color(self) == [c \in 1 .. 3 |-> RTrunc(RMul(R(white[c]), flat_night_factor(self)))]

(***************************************************************************)
(* The state machine of two generators painting one star at a time.  The   *)
(* position of a star on the screen is an input: result[i] is the star     *)
(* generator i computed last.                                              *)
(***************************************************************************)
StarTimes == {R(0), R(12), R(16), R(18)}
StarRatios == {<<1, 20>>, <<1, 2>>}

StarStates ==
    {TwilightState(R(64), R(36), R(42), time_of_day, R(5), transition_ratio, R(0), R(0), render_type) :
        time_of_day \in StarTimes, transition_ratio \in StarRatios, render_type \in {"flat", "spherical"}}

\* the rows of the screen the projections put a star on: the spherical
\* projection also computes rows outside the canvas
FlatRows == {0, 1, 17, 35}
SphericalRows == {-1, 0, 1, 17, 35, 36}

Star(y, color, night_factor, drawn) ==
    [y |-> y, color |-> color, night_factor |-> night_factor, drawn |-> drawn]

StarsInit ==
    \E s1 \in StarStates, s2 \in StarStates :
        /\ generators = <<TwilightGenerator(s1), TwilightGenerator(s2)>>
        /\ result = <<None, None>>
        /\ last = [op |-> "TwilightGenerator", ref |-> 0, raised |-> FALSE]
        /\ keyframes = <<>>
        /\ start_frame = 0
        /\ end_frame = 0
        /\ framerate = 30
        /\ overridden = FALSE
        /\ heap = <<>>
        /\ calls = 0
        /\ animators = <<>>
        /\ thread = None

\* one turn of a loop of _generate_stars_spherical, for a star in front of
\* the viewer that the projection puts on row y
DrawStarSpherical ==
    \E i \in GeneratorRefs, y \in SphericalRows :
        /\ generators[i].render_type = "spherical"
        /\ result' = [result EXCEPT ![i] =
               Some(Star(y, get_star_color(generators[i], y),
                         IF below_cutoff(generators[i], y)
                         THEN Some(star_color_night_factor(generators[i])) ELSE None,
                         0 <= y /\ y < generators[i].height))]
        /\ last' = [op |-> "_generate_stars_spherical", ref |-> i, raised |-> FALSE]
        /\ UNCHANGED <<keyframes, start_frame, end_frame, framerate, overridden, heap, calls,
                       animators, generators, thread>>

\* one turn of a loop of _generate_stars_flat, for a star on row y
DrawStarFlat ==
    \E i \in GeneratorRefs, y \in FlatRows :
        /\ generators[i].render_type = "flat"
        /\ result' = [result EXCEPT ![i] =
               Some(Star(y, flat_star_color(generators[i]),
                         Some(flat_night_factor(generators[i])),
                         0 <= y /\ y < generators[i].height))]
        /\ last' = [op |-> "_generate_stars_flat", ref |-> i, raised |-> FALSE]
        /\ UNCHANGED <<keyframes, start_frame, end_frame, framerate, overridden, heap, calls,
                       animators, generators, thread>>

StarsNext == DrawStarSpherical \/ DrawStarFlat

SpecStars == StarsInit /\ [][StarsNext]_vars

(***************************************************************************)
(* TwilightGeneratorThread: the worker's run loop, one statement at a      *)
(* time, against a caller whose set_state is two assignments.  States are  *)
(* references into the heap; the image of a state stands for its render.   *)
(* sent, latest and served are history: the requests made, the last one,   *)
(* and whether its state was emitted since.                                *)
(***************************************************************************)
MaxThreadCalls == 2
ThreadFrames == {1, 2}

\* TwilightGeneratorThread.__init__
TwilightGeneratorThread ==
    [current_state |-> None, next_state |-> None, current_frame |-> 0, next_frame |-> 0,
     running |-> TRUE, pc |-> "while", image |-> None, image_ready |-> {},
     caller |-> None, sent |-> <<>>, served |-> FALSE]

ThreadInit ==
    /\ thread = Some(TwilightGeneratorThread)
    /\ heap = KeyframeStates
    /\ last = [op |-> "TwilightGeneratorThread", raised |-> FALSE]
    /\ calls = 0
    /\ animators = <<>>
    /\ generators = <<>>
    /\ NoTimeline

SetThread(self, op) ==
    /\ thread' = Some(self)
    /\ last' = [op |-> op, raised |-> FALSE]
    /\ UNCHANGED <<timelineVars, heap, animators, generators>>

\* set_state(frame_number, state), first statement: self.next_frame = frame_number
SetStateFrame ==
    \E frame_number \in ThreadFrames, state \in StateRefs :
        /\ thread[1].caller = None
        /\ calls < MaxThreadCalls
        /\ calls' = calls + 1
        /\ SetThread([thread[1] EXCEPT
               !.next_frame = frame_number,
               !.caller = Some([frame_number |-> frame_number, state |-> state])],
               "set_state")

\* set_state, second statement: self.next_state = state
SetStateState ==
    /\ thread[1].caller # None
    /\ SetThread([thread[1] EXCEPT
           !.next_state = Some(thread[1].caller[1].state),
           !.caller = None,
           !.sent = Append(@, thread[1].caller[1]),
           !.served = FALSE], "set_state")
    /\ UNCHANGED calls

\* stop()
StopThread ==
    /\ thread[1].running
    /\ SetThread([thread[1] EXCEPT !.running = FALSE], "stop")
    /\ UNCHANGED calls

\* while self.running:
RunWhile ==
    /\ thread[1].pc = "while"
    /\ SetThread([thread[1] EXCEPT !.pc = IF thread[1].running THEN "if" ELSE "end"], "run")
    /\ UNCHANGED calls

\* if self.next_state: ... else: self.msleep(1)
RunIf ==
    /\ thread[1].pc = "if"
    /\ SetThread([thread[1] EXCEPT
           !.pc = IF thread[1].next_state # None THEN "current_state" ELSE "while"], "run")
    /\ UNCHANGED calls

\* self.current_state = self.next_state
RunTakeState ==
    /\ thread[1].pc = "current_state"
    /\ SetThread([thread[1] EXCEPT !.current_state = thread[1].next_state,
                                   !.pc = "current_frame"], "run")
    /\ UNCHANGED calls

\* self.current_frame = self.next_frame
RunTakeFrame ==
    /\ thread[1].pc = "current_frame"
    /\ SetThread([thread[1] EXCEPT !.current_frame = thread[1].next_frame,
                                   !.pc = "next_state"], "run")
    /\ UNCHANGED calls

\* self.next_state = None
RunClear ==
    /\ thread[1].pc = "next_state"
    /\ SetThread([thread[1] EXCEPT !.next_state = None, !.pc = "generate"], "run")
    /\ UNCHANGED calls

\* self.generator.set_state(self.current_state); self.generator.generate();
\* image = self.generator.get_image(), scaled to a pixmap
RunGenerate ==
    /\ thread[1].pc = "generate"
    /\ SetThread([thread[1] EXCEPT !.image = thread[1].current_state, !.pc = "emit"], "run")
    /\ UNCHANGED calls

\* self.image_ready.emit(self.current_frame, self.current_state, pixmap)
RunEmit ==
    /\ thread[1].pc = "emit"
    /\ SetThread([thread[1] EXCEPT
           !.image_ready = @ \cup {[frame_number |-> thread[1].current_frame,
                                    state |-> thread[1].current_state[1],
                                    image |-> thread[1].image[1]]},
           !.served = @ \/ (/\ thread[1].sent # <<>>
                            /\ thread[1].sent[Len(thread[1].sent)].state
                                   = thread[1].current_state[1]),
           !.pc = "while"], "image_ready")
    /\ UNCHANGED calls

\* the steps of the worker
Run == RunWhile \/ RunIf \/ RunTakeState \/ RunTakeFrame \/ RunClear \/ RunGenerate \/ RunEmit

ThreadNext == SetStateFrame \/ SetStateState \/ StopThread \/ Run

SpecThread == ThreadInit /\ [][ThreadNext]_vars

\* the worker thread and the caller's thread are both scheduled again and
\* again: a statement that can be executed is executed
SpecThreadFair == SpecThread /\ WF_vars(Run) /\ WF_vars(SetStateState)

(***************************************************************************)
(* Properties of TwilightState objects (SpecState).                        *)
(***************************************************************************)
\* lo <= x < hi
InHalfOpen(x, lo, hi) == RLeq(lo, x) /\ RLt(x, hi)

\* every field of the state s is within its domain
InDomain(s) ==
    /\ s.width \in Nat /\ s.width > 0
    /\ s.height \in Nat /\ s.height > 0
    /\ s.seed \in 0 .. 1000000
    /\ InHalfOpen(s.time_of_day, R(0), R(24))
    /\ RLeq(<<1, 10>>, s.star_density) /\ RLeq(s.star_density, R(5))
    /\ RLeq(<<1, 20>>, s.transition_ratio) /\ RLeq(s.transition_ratio, <<1, 2>>)
    /\ InHalfOpen(s.latitude, R(0), R(360))
    /\ InHalfOpen(s.longitude, R(0), R(360))
    /\ s.render_type \in {"flat", "spherical"}

\* the field the last call assigned a value to, with the value: the pairs
\* <<name, value>> of a constructor call's arguments, the one of a setter call
Assigned ==
    IF last.op = "TwilightState"
    THEN {<<FieldNames[i], last.args[1][FieldNames[i]]>> : i \in DOMAIN FieldNames}
    ELSE IF last.op = "setattr" THEN {<<last.name, last.value>>}
    ELSE {}

\* C11: every field of every constructed TwilightState is within its domain,
\* after construction and after every setter call, whatever accepted value
\* was given (non-integer widths, heights and seeds included)
C11_FieldsInDomain == \A ref \in DOMAIN heap : InDomain(heap[ref])

\* the value is one the claim says is rejected for the field
Rejected(name, value) ==
    \/ name \in {"width", "height"} /\ isinstance_number(value) /\ ~IsPositive(value)
    \/ /\ name = "seed" /\ isinstance_number(value)
       /\ IsNegative(value) \/ RLt(R(1000000), Exact(value))
    \/ /\ name # "render_type" /\ ~isinstance_number(value)
       /\ ~(last.op = "TwilightState" /\ name = "seed" /\ value = PyNone)
    \/ /\ name = "render_type"
       /\ ~isinstance_str(value) \/ lower(value.str) \notin {"flat", "spherical"}

\* q is an integer multiple of c
IsMultipleOf(q, c) == RMul(q, <<c[2], c[1]>>)[2] = 1

\* C12: giving a number x to a cyclical field (time_of_day, latitude,
\* longitude) never raises (in a constructor call whose other arguments are
\* accepted), and the field then holds a value in [0, C) that differs from x
\* by a multiple of C (C = 24, 360, 360)
C12_CyclicalWraps ==
    \A nv \in Assigned :
        (/\ nv[1] \in DOMAIN CYCLICAL_ATTRIBUTES
         /\ isinstance_number(nv[2])
         /\ \A other \in Assigned \ {nv} : ~Rejected(other[1], other[2]))
        => /\ ~last.raised
           /\ LET stored == heap[last.ref][nv[1]]
                  C == CYCLICAL_ATTRIBUTES[nv[1]]
              IN  /\ InHalfOpen(stored, R(0), C)
                  /\ nv[2].exp = 0 => IsMultipleOf(RSub(nv[2].num, stored), C)

\* C13: a constructor call or a setter call that is given a width or height
\* <= 0, a seed outside [0, 1000000], a non-number for a numeric field or a
\* render_type other than 'flat' or 'spherical' (in any case of the letters)
\* raises ValueError; a constructor that raises yields no object, and a
\* setter that raises leaves every field of every object as it was
C13_InvalidRaises ==
    /\ (\E nv \in Assigned : Rejected(nv[1], nv[2]))
       => /\ last.raised
          /\ heap = last.pre
    /\ (last.op = "setattr" /\ last.raised) => heap = last.pre

\* a setter was given a seed below 0 on a constructed state, and raised
C13_Witness ==
    /\ last.op = "setattr"
    /\ last.name = "seed"
    /\ IsNegative(last.value)
    /\ last.raised
    /\ last.pre # <<>>
    /\ InDomain(last.pre[1])

\* C14: copy() of a state whose fields are in their domains returns a state
\* with the same nine fields, and a setter call on either of the two leaves
\* the other one as it was
C14_CopyEqualIndependent ==
    /\ (last.op = "copy" /\ InDomain(last.pre[1]))
       => /\ ~last.raised
          /\ Len(heap) = 2
          /\ heap[2] = heap[1]
          /\ heap[1] = last.pre[1]
    /\ (last.op = "setattr" /\ Len(heap) = 2)
       => heap[3 - last.ref] = last.pre[3 - last.ref]

\* a state with seed 0 was copied, and a setter then changed the copy alone
C14_Witness ==
    /\ last.op = "setattr"
    /\ last.ref = 2
    /\ ~last.raised
    /\ InDomain(heap[1])
    /\ heap[1].seed = 0
    /\ heap[2] # heap[1]
    /\ heap[1] = last.pre[1]

(***************************************************************************)
(* Properties of the interpolator (SpecInterpolate).                       *)
(***************************************************************************)
\* C15: interpolate(a, a, t, direction) equals a field for field, for every
\* state a whose fields are in their domains, every t and both directions
C15_InterpolateIdentity ==
    (last.op = "interpolate" /\ heap[1] = heap[2] /\ InDomain(heap[1]))
    => heap[result[1]] = heap[1]

\* a state was interpolated with itself backward at a t outside [0, 1]
C15_Witness ==
    /\ last.op = "interpolate"
    /\ heap[1] = heap[2]
    /\ InDomain(heap[1])
    /\ last.direction = "backward"
    /\ last.t = <<3, 2>>
    /\ heap[1].latitude # R(0)
    /\ result # None

\* C16: latitude 350 to latitude 10 at t = 1/2 gives latitude 0 forward and
\* latitude 180 backward; forward the latitude is (a + ((b - a) mod 360) * t)
\* mod 360, backward (a - ((a - b) mod 360) * t) mod 360, and it is always
\* in [0, 360)
C16_CyclicalDirection ==
    last.op = "interpolate"
    => LET a == heap[1].latitude
           b == heap[2].latitude
           lat == heap[result[1]].latitude
       IN  /\ InHalfOpen(lat, R(0), R(360))
           /\ IsMultipleOf(RSub(lat,
                  IF last.direction = "forward"
                  THEN RAdd(a, RMul(RMod(RSub(b, a), R(360)), last.t))
                  ELSE RSub(a, RMul(RMod(RSub(a, b), R(360)), last.t))), R(360))
           /\ (a = R(350) /\ b = R(10) /\ last.t = <<1, 2>>)
              => lat = IF last.direction = "forward" THEN R(0) ELSE R(180)

\* latitude 350 was interpolated to latitude 10 at t = 1/2 backward
C16_Witness ==
    /\ last.op = "interpolate"
    /\ heap[1].latitude = R(350)
    /\ heap[2].latitude = R(10)
    /\ last.t = <<1, 2>>
    /\ last.direction = "backward"
    /\ heap[result[1]].latitude = R(180)

\* C17: the timeline with keyframes (0: star_density 1, time_of_day 20) and
\* (100: star_density 1/5, time_of_day 6), sampled at frame 50, yields
\* star_density 3/5 and time_of_day (20 + ((6 - 20) mod 24) * 1/2) mod 24 = 1
C17_EndToEnd ==
    (/\ Called("get_state_at_frame")
     /\ last.frame_number = Some(50)
     /\ keyframes = <<Keyframe(1, 0), Keyframe(2, 100)>>
     /\ heap[1].star_density = R(1) /\ heap[1].time_of_day = R(20)
     /\ heap[2].star_density = <<1, 5>> /\ heap[2].time_of_day = R(6))
    => /\ result # None
       /\ heap[result[1]].star_density = <<3, 5>>
       /\ heap[result[1]].time_of_day = R(1)
       /\ heap[result[1]].time_of_day
              = RMod(RAdd(R(20), RMul(RMod(RSub(R(6), R(20)), R(24)), <<1, 2>>)), R(24))

\* that timeline was sampled at frame 50
C17_Witness ==
    /\ Called("get_state_at_frame")
    /\ last.frame_number = Some(50)
    /\ keyframes = <<Keyframe(1, 0), Keyframe(2, 100)>>
    /\ heap[1].star_density = R(1) /\ heap[1].time_of_day = R(20)
    /\ heap[2].star_density = <<1, 5>> /\ heap[2].time_of_day = R(6)
    /\ result # None

(***************************************************************************)
(* Properties of the animator (SpecAnimator).                              *)
(***************************************************************************)
\* frame f lies strictly between two adjacent keyframes whose time_of_day differ
BetweenDifferingKeyframes(f) ==
    \E k \in 1 .. Len(keyframes) - 1 :
        /\ keyframes[k].frame_number < f
        /\ f < keyframes[k + 1].frame_number
        /\ heap[keyframes[k].state].time_of_day # heap[keyframes[k + 1].state].time_of_day

\* C18: an animator is constructed for the directions 'forward' and
\* 'backward' only, and its direction is the one its playback interpolates
\* the cyclical fields in: two animators of different direction over the
\* same timeline emit different time_of_day values for a frame strictly
\* between two keyframes whose time_of_day differ
C18_AnimatorDirectionUsed ==
    /\ last.op = "TwilightAnimator"
       => \A i \in {1, 2} :
              (animators[i] = None) <=> (lower(last.direction[i]) \notin {"forward", "backward"})
    /\ \A i, j \in DOMAIN animators :
           (/\ animators[i] # None /\ animators[j] # None
            /\ animators[i][1].direction # animators[j][1].direction
            /\ animators[i][1].emitted # None /\ animators[j][1].emitted # None
            /\ animators[i][1].emitted[1].frame_number = animators[j][1].emitted[1].frame_number
            /\ BetweenDifferingKeyframes(animators[i][1].emitted[1].frame_number))
           => animators[i][1].emitted[1].state.time_of_day
                  # animators[j][1].emitted[1].state.time_of_day

(***************************************************************************)
(* Properties of the generator (SpecGenerator).                            *)
(***************************************************************************)
\* C19: two generators whose current state is the same hold the same small
\* stars and the same big stars, whether the state was given to the
\* constructor or installed by set_state after other states
C19_StarFieldDetermined ==
    \A i, j \in GeneratorRefs :
        generators[i].state = generators[j].state
        => /\ generators[i].master_small_stars = generators[j].master_small_stars
           /\ generators[i].master_big_stars = generators[j].master_big_stars

\* base * (width * height) / (1920 * 1080) * star_density for the state g holds
ScaledCount(base, g) ==
    RMul(RMul(R(base), Rat(g.state.width * g.state.height, 1920 * 1080)), g.state.star_density)

\* n is x cut to an integer, the cut made once or at both multiplications
CutOf(n, x) == RLeq(R(n), x) /\ RLt(x, R(n + 2))

\* C20: the number of small stars and of big stars a generator draws is
\* 2500, respectively 200, times (width * height) / (1920 * 1080) times
\* star_density of its current state, cut to an integer
C20_StarCountsFollowState ==
    \A i \in GeneratorRefs :
        /\ CutOf(total_small_stars_display(generators[i]), ScaledCount(base_small_stars, generators[i]))
        /\ CutOf(total_big_stars_display(generators[i]), ScaledCount(base_big_stars, generators[i]))

\* C21: the image get_image returns is a render of the state most recently
\* installed in the generator, by the constructor or by set_state
C21_ImageOfCurrentState ==
    last.op = "get_image"
    => LET g == generators[last.ref]
       IN  /\ g.image # None
           /\ g.image[1].of = g.state

(***************************************************************************)
(* Properties of the colour of a star (SpecStars).                         *)
(***************************************************************************)
\* C22: in flat and in spherical mode alike, the night factor multiplied
\* into a star's colour at time_of_day = 0 is strictly greater than the one
\* at time_of_day = 12
C22_BrighterAtMidnight ==
    \A i, j \in GeneratorRefs :
        (/\ result[i] # None
         /\ result[j] # None
         /\ result[i][1].night_factor # None
         /\ result[j][1].night_factor # None
         /\ generators[i].render_type = generators[j].render_type
         /\ generators[i].time_of_day = R(0)
         /\ generators[j].time_of_day = R(12))
        => RLt(result[j][1].night_factor[1], result[i][1].night_factor[1])

\* C30: every channel of the colour computed for a star is an integer from
\* 0 to 255, at every time of day and transition ratio, in flat and in
\* spherical mode
C30_ChannelsInRange ==
    \A i \in GeneratorRefs :
        result[i] # None
        => \A c \in 1 .. 3 :
               /\ 0 <= result[i][1].color[c]
               /\ result[i][1].color[c] <= 255

(***************************************************************************)
(* Properties of sampling (Spec).                                          *)
(***************************************************************************)
\* C23: a call of get_state_at_frame, with or without a list of the caller,
\* leaves the timeline's keyframes, start_frame, end_frame and framerate and
\* the states of the keyframes as they were, and leaves the caller's list in
\* the order it was passed
C23_SamplingNoSideEffect ==
    Called("get_state_at_frame")
    => /\ Self = last.pre
       /\ last.passed = last.keyframes
       /\ \A r \in StateRefs : heap[r] = KeyframeStates[r]

\* a sample was taken from a caller's list that is out of order and holds
\* an object that is no Keyframe
C23_Witness ==
    /\ Called("get_state_at_frame")
    /\ last.keyframes # None
    /\ ~IsSorted(SelectSeq(last.keyframes[1], isinstance_Keyframe))
    /\ result # None
    /\ Len(keyframes) >= 2

\* the frame numbers of the list are pairwise distinct
DistinctFrames(kfs) ==
    \A i, j \in 1 .. Len(kfs) : i # j => kfs[i].frame_number # kfs[j].frame_number

\* C24: in a list with distinct frame numbers, a sample at the frame of a
\* keyframe (f, s), be it the first, the last or one in between, is equal to
\* s in every field, render_type included
C24_SampleAtKeyframe ==
    (/\ Called("get_state_at_frame")
     /\ DistinctFrames(SampledList))
    => \A k \in 1 .. Len(SampledList) :
           SampledList[k].frame_number = last.frame_number[1]
           => /\ result # None
              /\ heap[result[1]] = heap[SampledList[k].state]

\* C25: when get_state_at_frame calls the interpolator, the bracket it chose
\* has f0 < frame_number <= f1 and the blend factor has 0 < t <= 1, also in
\* a list that holds equal frame numbers
C25_BracketAndBlend ==
    (/\ Called("get_state_at_frame")
     /\ last.interpolated # None)
    => LET call == last.interpolated[1]
           f == last.frame_number[1]
       IN  /\ call.start_frame < f
           /\ f <= call.end_frame
           /\ RLt(R(0), call.t)
           /\ RLeq(call.t, R(1))

\* the interpolator was called on a list that holds two keyframes of one
\* frame number, at that frame number
C25_Witness ==
    /\ Called("get_state_at_frame")
    /\ last.interpolated # None
    /\ ~DistinctFrames(SampledList)
    /\ \E i, j \in 1 .. Len(SampledList) :
           /\ i # j
           /\ SampledList[i].frame_number = last.frame_number[1]
           /\ SampledList[j].frame_number = last.frame_number[1]

(***************************************************************************)
(* Properties of the generator thread (SpecThread, SpecThreadFair).        *)
(***************************************************************************)
\* C26: every image_ready emitted carries a frame number and a state that
\* were passed together in one set_state call
C26_EmittedPairWasSent ==
    \A e \in thread[1].image_ready :
        \E k \in 1 .. Len(thread[1].sent) + 1 :
            LET request == IF k <= Len(thread[1].sent) THEN Some(thread[1].sent[k])
                           ELSE thread[1].caller
            IN  /\ request # None
                /\ request[1].frame_number = e.frame_number
                /\ request[1].state = e.state

\* the last set_state has returned and its state was not emitted since
Pending ==
    /\ thread[1].caller = None
    /\ thread[1].sent # <<>>
    /\ ~thread[1].served

\* C27: while the worker keeps running, the state of the most recent
\* set_state call is eventually emitted through image_ready, unless a newer
\* set_state call comes first
C27_NoRequestLost ==
    Pending ~> (thread[1].served \/ thread[1].caller # None \/ ~thread[1].running)

(***************************************************************************)
(* Properties of a playback (SpecAnimator).                                *)
(***************************************************************************)
\* C28: once stop_animation was called for a started playback, the playback
\* emits at most one more frame_generated, also when the stop comes right
\* after the thread was started
C28_StopStopsPlayback ==
    \A i \in DOMAIN animators :
        (animators[i] # None /\ animators[i][1].stop_at # None)
        => Len(animators[i][1].frames) <= animators[i][1].stop_at[1] + 1

\* the frame numbers from first to end_frame, in ascending order
FramesToPlay(self) == [k \in 1 .. Max(0, end_frame - self.first + 1) |-> self.first + k - 1]

IsPrefix(s, t) == Len(s) <= Len(t) /\ \A k \in 1 .. Len(s) : s[k] = t[k]

\* the playback started last has ended
Ended(self) == self.pc = "idle" /\ self.finished > 0

\* what the claim says of the animator self
PlaybackAsClaimed(self) ==
    /\ IsPrefix(self.frames, FramesToPlay(self))
    /\ self.finished <= 1
    /\ (Ended(self) /\ self.stop_at = None)
       => /\ self.frames = FramesToPlay(self)
          /\ self.finished = 1
          /\ ~self.is_running
          /\ self.next_frame = end_frame + 1

=============================================================================
